---- MODULE Spec2Model ----
(***************************************************************************)
(* Model of autotrader_scraper/scrape.py: the search URL construction, the *)
(* discovery of listing URLs, the two extractors, the merge of their       *)
(* records and the per-pair main loop with its CSV write.                  *)
(*                                                                         *)
(* Python values are modelled as follows.  A dict is a function whose      *)
(* DOMAIN is its key set.  Leaf values are opaque strings; Python's None   *)
(* is Null and an empty list literal is EmptyList.  A call that raises is  *)
(* a result whose exc field names the exception type.                      *)
(***************************************************************************)
EXTENDS Integers, Sequences, FiniteSets, TLC

VARIABLES
    pc,              \* position of the main program / of the function applied
    pair,            \* index into cars of the pair being processed
    search_page,     \* the parsed search-results page (main, line 232)
    car_page_urls,   \* list returned by get_car_page_urls (line 234)
    car_pages,       \* pages fetched so far by get_car_pages (lines 91-99)
    k,               \* index of the next page of the loop of line 238
    car_data_list,   \* records appended so far (lines 237-244)
    exc,             \* uncaught exception that ended the run, if any
    written,         \* per pair: state of its output table
    out_file,        \* content written by the current pair's write step
    car_page,        \* argument of an extractor applied on its own
    car_data,        \* result of extract_car_data on car_page
    extra_car_data,  \* result of extract_extra_car_data on car_page
    query,           \* arguments of search_autotrader
    url              \* URL built by search_autotrader (lines 40-46)

vars == <<pc, pair, search_page, car_page_urls, car_pages, k, car_data_list,
          exc, written, out_file, car_page, car_data, extra_car_data,
          query, url>>

(***************************************************************************)
(* Bounds of the model.                                                    *)
(***************************************************************************)
MaxBlocks == 3      \* structured-data script elements on a listing page
MaxScripts == 2     \* text/javascript script elements on a listing page
MaxAnchors == 3     \* anchors on a search-results page
MaxListings == 2    \* listings discovered for one pair in a whole run
MaxLen == 4         \* length of the postal-code string

(***************************************************************************)
(* Python values.                                                          *)
(***************************************************************************)
Null == "null"
EmptyList == "[]"
EmptyObj == [key \in {} |-> Null]

\* dict.get(key, default)
Get(obj, key, default) == IF key \in DOMAIN obj THEN obj[key] ELSE default

\* A call that returned val; none is TRUE when the value is Python's None.
Return(val) == [exc |-> "none", none |-> FALSE, val |-> val]
ReturnNone == [exc |-> "none", none |-> TRUE, val |-> EmptyObj]
Raise(type) == [exc |-> type, none |-> FALSE, val |-> EmptyObj]
NotCalled == [exc |-> "notcalled", none |-> FALSE, val |-> EmptyObj]

\* An optional member of a JSON object: absent, or one of the given values.
Opt(values) == {<< >>} \cup {<<v>> : v \in values}
\* The object holding exactly the members that are present.
MkObj(opts) == [key \in {x \in DOMAIN opts : opts[x] # << >>} |-> opts[key][1]]

\* Text handed to json.loads: it denotes an object, an array, or is not JSON.
ObjectText(obj) == [json |-> "object", value |-> obj]
ArrayText == [json |-> "array", value |-> EmptyObj]
MalformedText == [json |-> "malformed", value |-> EmptyObj]

\* json.loads(text), as far as the extractors use its result
JsonLoads(text) ==
    IF text.json = "malformed" THEN Raise("JSONDecodeError")
    ELSE [exc |-> "none", none |-> FALSE, val |-> text.value, kind |-> text.json]

(***************************************************************************)
(* extract_car_data (lines 130-151).  page.ld is the list returned by      *)
(* find_all("script", {"type": "application/ld+json"}), each element       *)
(* being the text of one script element.                                   *)
(***************************************************************************)
PrimaryFields == {"url", "name", "make", "model", "year", "color", "mileage",
                  "mileage_unit", "price", "price_currency", "availability",
                  "engine_type", "fuel_type", "transmission",
                  "vehicle_configuration"}

PrimaryRecord(json_data) ==
    [url |-> Get(json_data, "url", Null),
     name |-> Get(json_data, "name", Null),
     make |-> json_data["brand"]["name"],
     model |-> Get(json_data, "model", Null),
     year |-> Get(json_data, "vehicleModelDate", Null),
     color |-> Get(json_data, "color", Null),
     mileage |-> Get(Get(json_data, "mileageFromOdometer", EmptyObj), "value", Null),
     mileage_unit |-> Get(Get(json_data, "mileageFromOdometer", EmptyObj), "unitCode", Null),
     price |-> Get(Get(json_data, "offers", EmptyObj), "price", Null),
     price_currency |-> Get(Get(json_data, "offers", EmptyObj), "priceCurrency", Null),
     availability |-> Get(Get(json_data, "offers", EmptyObj), "availability", Null),
     engine_type |-> Get(Get(json_data, "vehicleEngine", EmptyObj), "engineType", Null),
     fuel_type |-> Get(Get(json_data, "vehicleEngine", EmptyObj), "fuelType", Null),
     transmission |-> Get(json_data, "vehicleTransmission", Null),
     vehicle_configuration |-> Get(json_data, "vehicleConfiguration", Null)]

extract_car_data(page) ==
    IF Len(page.ld) < 2 THEN Raise("IndexError")          \* [1] on the list
    ELSE LET loaded == JsonLoads(page.ld[2]) IN
         IF loaded.exc # "none" THEN Raise(loaded.exc)
         ELSE IF loaded.kind # "object" THEN Raise("TypeError")
         ELSE LET json_data == loaded.val IN
              \* line 133: json_data["name"], json_data["url"]
              IF "name" \notin DOMAIN json_data THEN Raise("KeyError")
              ELSE IF "url" \notin DOMAIN json_data THEN Raise("KeyError")
              \* line 138: json_data["brand"]["name"]
              ELSE IF "brand" \notin DOMAIN json_data THEN Raise("KeyError")
              ELSE IF "name" \notin DOMAIN json_data["brand"] THEN Raise("KeyError")
              ELSE Return(PrimaryRecord(json_data))

(***************************************************************************)
(* extract_extra_car_data (lines 187-218).  page.js is the list returned   *)
(* by find_all("script", {"type": "text/javascript"}).  Of each script the *)
(* model keeps what the function reads: whether its text contains          *)
(* ngVdpModel, whether the assignment pattern of line 191 matches, and the *)
(* text captured by the pattern's group, which starts with "{" and so is   *)
(* either a JSON object or not JSON.                                       *)
(***************************************************************************)
ExtraFields == {"highlight_items", "feature_highlights", "feature_options",
                "trim", "location", "vehicle_age", "stock_number",
                "dealer_name", "mileage_analysis", "fuel_economy_city",
                "fuel_economy_highway", "fuel_economy_combined",
                "fuel_cost_cents_per_litre", "specs", "description",
                "price_analysis", "price_analysis_market_price",
                "price_analysis_evaluation"}

ExtraRecord(json_data) ==
    [highlight_items |-> Get(Get(json_data, "highlights", EmptyObj), "items", EmptyList),
     feature_highlights |-> Get(json_data, "featureHighlights", EmptyList),
     feature_options |-> Get(json_data, "featureHighlights", EmptyList),
     trim |-> Get(Get(json_data, "hero", EmptyObj), "trim", Null),
     location |-> Get(Get(json_data, "hero", EmptyObj), "location", Null),
     vehicle_age |-> Get(Get(json_data, "hero", EmptyObj), "vehicleAge", Null),
     stock_number |-> Get(Get(json_data, "hero", EmptyObj), "stockNumber", Null),
     dealer_name |-> Get(Get(json_data, "ngIcoModel", EmptyObj), "dealerName", Null),
     mileage_analysis |-> Get(Get(json_data, "conditionAnalysis", EmptyObj), "odometerCondition", Null),
     fuel_economy_city |-> Get(Get(json_data, "fuelEconomy", EmptyObj), "fuelCity", Null),
     fuel_economy_highway |-> Get(Get(json_data, "fuelEconomy", EmptyObj), "fuelHighway", Null),
     fuel_economy_combined |-> Get(Get(json_data, "fuelEconomy", EmptyObj), "fuelCombined", Null),
     fuel_cost_cents_per_litre |-> Get(Get(json_data, "fuelEconomy", EmptyObj), "fuelCost", Null),
     specs |-> Get(json_data, "specifications", Null),
     description |-> Get(json_data["description"], "description", Null),
     price_analysis |-> Get(Get(json_data, "priceAnalysis", EmptyObj), "priceAnalysisDescription", Null),
     price_analysis_market_price |-> Get(Get(json_data, "priceAnalysis", EmptyObj), "priceAnalysisMarketPrice", Null),
     price_analysis_evaluation |-> Get(Get(json_data, "priceAnalysis", EmptyObj), "priceEvaluation", Null)]

\* "ngVdpModel" in jd.text
HasMarker(script) == script.marker

extract_extra_car_data(page) ==
    LET candidates == SelectSeq(page.js, HasMarker) IN
    IF Len(candidates) = 0 THEN Raise("IndexError")       \* [0] on the list
    ELSE LET js_data == candidates[1] IN
         IF ~js_data.assigned THEN ReturnNone              \* line 218
         ELSE LET loaded == JsonLoads(js_data.payload) IN
              IF loaded.exc # "none" THEN Raise(loaded.exc)
              \* the captured text starts with "{": once parsed it is an object
              ELSE LET json_data == loaded.val IN
                   \* line 212: json_data["description"]
                   IF "description" \notin DOMAIN json_data THEN Raise("KeyError")
                   ELSE Return(ExtraRecord(json_data))

(***************************************************************************)
(* Listing pages the extractors are applied to.                            *)
(***************************************************************************)
\* Second structured-data block: every subset of the members listed.
PrimaryObjs ==
    {MkObj(o) : o \in [url : Opt({"/a/1"}),
                       name : Opt({"2019 Toyota RAV4"}),
                       brand : Opt({EmptyObj, [name |-> "Toyota"]}),
                       model : Opt({"RAV4"}),
                       offers : Opt({EmptyObj, [price |-> "24999"]}),
                       vehicleEngine : Opt({[engineType |-> "I4"]})]}

\* The first structured-data block of the site's pages (not the vehicle).
OtherBlock == ObjectText([name |-> "breadcrumbs"])

LdTexts == {MalformedText, ArrayText} \cup {ObjectText(o) : o \in PrimaryObjs}

\* Lists of structured-data blocks: the vehicle block, when there is one, is
\* wherever the page has it; every other block is OtherBlock.
LdLists ==
    {<< >>} \cup
    {[i \in 1..n |-> IF i = at THEN t ELSE OtherBlock] :
        n \in 1..MaxBlocks, at \in 1..2, t \in LdTexts}

SecondaryObjs ==
    {MkObj(o) : o \in [hero : Opt({EmptyObj, [trim |-> "XLE"],
                                   [trim |-> "EX-L", location |-> "Halifax"]}),
                       description : Opt({EmptyObj, [description |-> "One owner"]}),
                       specifications : Opt({"specs"})]}

OtherScript == [marker |-> FALSE, assigned |-> FALSE, payload |-> MalformedText]
MentionScript == [marker |-> TRUE, assigned |-> FALSE, payload |-> MalformedText]
AssignScript(text) == [marker |-> TRUE, assigned |-> TRUE, payload |-> text]

Scripts ==
    {OtherScript, MentionScript, AssignScript(MalformedText)}
    \cup {AssignScript(ObjectText(o)) : o \in SecondaryObjs}

JsLists ==
    {<< >>} \cup
    {[i \in 1..n |-> IF i = n THEN s ELSE OtherScript] :
        n \in 1..MaxScripts, s \in Scripts}

GoodLd == <<OtherBlock, ObjectText([url |-> "/a/1", name |-> "2019 Toyota RAV4",
                                    brand |-> [name |-> "Toyota"], model |-> "RAV4",
                                    offers |-> [price |-> "24999"]])>>
GoodJs == <<AssignScript(ObjectText([hero |-> [trim |-> "XLE"],
                                     description |-> [description |-> "One owner"]]))>>

ExtractorPages ==
    {[ld |-> l, js |-> GoodJs] : l \in LdLists}
    \cup {[ld |-> GoodLd, js |-> j] : j \in JsLists}

(***************************************************************************)
(* search_autotrader, URL construction (lines 40-46).  Strings whose       *)
(* characters matter are sequences of one-character strings.               *)
(***************************************************************************)
URL_BASE == <<"h","t","t","p","s",":","/","/","w","w","w",".","a","u","t","o",
              "t","r","a","d","e","r",".","c","a">>

Digit(d) == CASE d = 0 -> "0" [] d = 1 -> "1" [] d = 2 -> "2" [] d = 3 -> "3"
              [] d = 4 -> "4" [] d = 5 -> "5" [] d = 6 -> "6" [] d = 7 -> "7"
              [] d = 8 -> "8" [] d = 9 -> "9"

\* str(n) of a non-negative int, as an f-string formats it
RECURSIVE IntStr(_)
IntStr(n) == IF n < 10 THEN <<Digit(n)>> ELSE IntStr(n \div 10) \o <<Digit(n % 10)>>

\* "&".join(parts)
RECURSIVE Join(_)
Join(parts) ==
    IF Len(parts) = 0 THEN << >>
    ELSE IF Len(parts) = 1 THEN parts[1]
    ELSE parts[1] \o <<"&">> \o Join(Tail(parts))

\* s.replace(" ", "%20")
RECURSIVE ReplaceSpaces(_)
ReplaceSpaces(s) ==
    IF Len(s) = 0 THEN << >>
    ELSE (IF Head(s) = " " THEN <<"%","2","0">> ELSE <<Head(s)>>)
         \o ReplaceSpaces(Tail(s))

\* The URL built without the replacement of line 45.
SearchUrlUnescaped(q) ==
    URL_BASE
    \o <<"/","c","a","r","s","/","?">>
    \o Join(<<<<"l","o","c","=">> \o q.postal_code,
              <<"m","a","k","e","=">> \o q.make,
              <<"m","d","l","=">> \o q.model,
              <<"p","r","x","=">> \o IntStr(q.radius_km),
              <<"r","c","p","=">> \o IntStr(q.display_results)>>)

SearchUrl(q) ==
    URL_BASE
    \o <<"/","c","a","r","s","/","?">>
    \o ReplaceSpaces(Join(<<<<"l","o","c","=">> \o q.postal_code,
                            <<"m","a","k","e","=">> \o q.make,
                            <<"m","d","l","=">> \o q.model,
                            <<"p","r","x","=">> \o IntStr(q.radius_km),
                            <<"r","c","p","=">> \o IntStr(q.display_results)>>))

(***************************************************************************)
(* get_car_page_urls (lines 66-75).  A search page is the list of its      *)
(* anchor elements, each the dict of its attributes; class is the set of   *)
(* the class names of the element.                                         *)
(***************************************************************************)
UrlBase == "https://www.autotrader.ca"

\* str(x) for the value of tag.get("href")
Str(x) == IF x = Null THEN "None" ELSE x

\* find_all("a", attrs={"class": ["detail-price-area", "inner-link"]})
TargetClasses == {"detail-price-area", "inner-link"}
Matches(tag) == Get(tag, "class", {}) \cap TargetClasses # {}

\* the set of line 75; its listing order is not determined by the code
get_car_page_urls(page) ==
    LET tags == SelectSeq(page.anchors, Matches) IN
    {UrlBase \o Str(Get(tags[i], "href", Null)) : i \in 1..Len(tags)}

\* list(s): the lists holding each element of s once
Listings(s) ==
    {l \in [1..Cardinality(s) -> s] : \A i, j \in 1..Cardinality(s) : l[i] = l[j] => i = j}

Anchors ==
    {MkObj(o) : o \in [class : Opt({{"detail-price-area"}, {"inner-link", "result-title"},
                                     {"photo-area"}}),
                       href : Opt({"/a/1", "/a/2"})]}

SearchPages ==
    {[anchors |-> a] : a \in UNION {[1..n -> Anchors] : n \in 0..MaxAnchors}}

(***************************************************************************)
(* The main program (lines 222-254).                                       *)
(***************************************************************************)
cars == << [make |-> <<"M","a","z","d","a">>, model |-> <<"C","X","-","5">>],
           [make |-> <<"T","o","y","o","t","a">>, model |-> <<"R","A","V","4">>],
           [make |-> <<"H","o","n","d","a">>, model |-> <<"C","R","-","V">>] >>
NumPairs == Len(cars)
postal_code == <<"B","3","M"," ","0","L","8">>
radius_km == 100
display_results == 100

\* Arguments of the call of line 232 for the pair at index i.
MainQuery(i) == [make |-> cars[i].make, model |-> cars[i].model,
                 postal_code |-> postal_code, radius_km |-> radius_km,
                 display_results |-> display_results]

\* An update that adds nothing to the base record.
UpdateKeepBase(base, extra) == base

\* dict.update: car_data.update(extra_car_data)
Update(base, extra) ==
    [key \in DOMAIN base \cup DOMAIN extra |->
        IF key \in DOMAIN extra THEN extra[key] ELSE base[key]]

\* Lines 239-242 for one page: the record to append, or the exception raised.
ListingRecord(page) ==
    LET base == extract_car_data(page) IN
    IF base.exc # "none" THEN [exc |-> base.exc, stage |-> "extract_car_data", val |-> EmptyObj]
    ELSE LET extra == extract_extra_car_data(page) IN
         IF extra.exc # "none"
         THEN [exc |-> extra.exc, stage |-> "extract_extra_car_data", val |-> EmptyObj]
         ELSE [exc |-> "none", stage |-> "none",
               \* line 241: a None or an empty dict is falsy
               val |-> IF ~extra.none /\ DOMAIN extra.val # {}
                       THEN Update(base.val, extra.val) ELSE base.val]

\* csv.DictWriter(file, fieldnames).writeheader() and writerows(rows): a row
\* with a key outside fieldnames raises ValueError (extrasaction="raise"),
\* after the rows before it were written; a missing key is written as "".
RowFields(fieldnames, row) == [f \in fieldnames |-> Get(row, f, "")]
RECURSIVE WriteRows(_, _, _)
WriteRows(fieldnames, rows, done) ==
    IF Len(rows) = 0 THEN [exc |-> "none", header |-> fieldnames, rows |-> done]
    ELSE IF DOMAIN Head(rows) \ fieldnames # {}
         THEN [exc |-> "ValueError", header |-> fieldnames, rows |-> done]
         ELSE WriteRows(fieldnames, Tail(rows),
                        Append(done, RowFields(fieldnames, Head(rows))))
DictWriter(rows) == WriteRows(DOMAIN rows[1], rows, << >>)

NoFile == [exc |-> "none", header |-> {}, rows |-> << >>]
NoExc == [stage |-> "none", type |-> "none"]
NoPage == [ld |-> << >>, js |-> << >>]
NoSearchPage == [anchors |-> << >>]

\* Listing pages of a run: one per outcome of the loop body of lines 239-244.
BareLd == <<OtherBlock, ObjectText([url |-> "/a/2", name |-> "2016 Honda CR-V",
                                    brand |-> [name |-> "Honda"]])>>
PipelinePages ==
    { [ld |-> <<OtherBlock>>, js |-> GoodJs],
      [ld |-> GoodLd, js |-> << >>],
      [ld |-> GoodLd, js |-> <<MentionScript>>],
      [ld |-> GoodLd, js |-> GoodJs],
      [ld |-> BareLd, js |-> <<AssignScript(ObjectText([hero |-> [trim |-> "XLE"]]))>>],
      [ld |-> BareLd, js |-> <<OtherScript, MentionScript>>] }

\* Search pages of a run: n result anchors with distinct hrefs.
PipelineSearchPages ==
    {[anchors |-> [i \in 1..n |-> [class |-> {"inner-link", "result-title"},
                                   href |-> "/a/" \o ToString(i)]]] :
        n \in 0..MaxListings}

Init ==
    /\ pc = "search"
    /\ pair = 1
    /\ search_page = NoSearchPage
    /\ car_page_urls = << >>
    /\ car_pages = << >>
    /\ k = 1
    /\ car_data_list = << >>
    /\ exc = NoExc
    /\ written = [i \in 1..NumPairs |-> 0]
    /\ out_file = NoFile
    /\ car_page = NoPage
    /\ car_data = NotCalled
    /\ extra_car_data = NotCalled
    /\ query = MainQuery(1)
    /\ url = << >>

Abort(stage, type) ==
    /\ pc' = "aborted"
    /\ exc' = [stage |-> stage, type |-> type]

\* Lines 229-234: build the URL, fetch the search page, discover the URLs.
Search ==
    /\ pc = "search"
    /\ query' = MainQuery(pair)
    /\ url' = SearchUrl(MainQuery(pair))
    /\ out_file' = NoFile
    /\ \/ /\ Abort("search_autotrader", "RequestException")     \* line 49 raises
          /\ UNCHANGED <<search_page, car_page_urls, car_pages>>
       \/ \E sp \in PipelineSearchPages :
          \E urls \in Listings(get_car_page_urls(sp)) :
             /\ search_page' = sp
             /\ car_page_urls' = urls
             /\ car_pages' = << >>
             /\ pc' = "fetch"
             /\ exc' = exc
    /\ UNCHANGED <<pair, k, car_data_list, written, car_page, car_data, extra_car_data>>

\* Lines 92-97: one iteration of the loop of get_car_pages.
FetchPage ==
    /\ pc = "fetch"
    /\ Len(car_pages) < Len(car_page_urls)
    /\ \/ /\ Abort("get_car_pages", "RequestException")         \* line 95 raises
          /\ UNCHANGED car_pages
       \/ \E p \in PipelinePages :
             /\ car_pages' = Append(car_pages, p)
             /\ UNCHANGED <<pc, exc>>
    /\ UNCHANGED <<pair, search_page, car_page_urls, k, car_data_list, written,
                   out_file, car_page, car_data, extra_car_data, query, url>>

\* Lines 99 and 237: get_car_pages returns, the record list starts empty.
FetchDone ==
    /\ pc = "fetch"
    /\ Len(car_pages) = Len(car_page_urls)
    /\ pc' = "extract"
    /\ k' = 1
    /\ car_data_list' = << >>
    /\ UNCHANGED <<pair, search_page, car_page_urls, car_pages, exc, written,
                   out_file, car_page, car_data, extra_car_data, query, url>>

\* Lines 238-244: one iteration of the extraction loop.
ExtractPage ==
    /\ pc = "extract"
    /\ k <= Len(car_pages)
    /\ LET r == ListingRecord(car_pages[k]) IN
       IF r.exc # "none"
       THEN /\ Abort(r.stage, r.exc)
            /\ UNCHANGED <<k, car_data_list>>
       ELSE /\ car_data_list' = Append(car_data_list, r.val)
            /\ k' = k + 1
            /\ UNCHANGED <<pc, exc>>
    /\ UNCHANGED <<pair, search_page, car_page_urls, car_pages, written,
                   out_file, car_page, car_data, extra_car_data, query, url>>

\* Line 229: the next pair, or the end of the program.
NextPair ==
    /\ pair' = pair + 1
    /\ pc' = IF pair = NumPairs THEN "done" ELSE "search"

\* Lines 247-254 with at least one record: the file is opened and the table
\* is written.  open() raises when the file cannot be created (the program
\* does not create the data directory); nothing is written then.
WriteTable ==
    /\ pc = "extract"
    /\ k > Len(car_pages)
    /\ Len(car_data_list) > 0
    /\ \/ /\ Abort("open", "OSError")                          \* line 249 raises
          /\ UNCHANGED <<pair, written, out_file>>
       \/ /\ written' = [written EXCEPT ![pair] = @ + 1]
          /\ out_file' = DictWriter(car_data_list)
          /\ IF out_file'.exc # "none"
             THEN /\ Abort("write", out_file'.exc)
                  /\ UNCHANGED pair
             ELSE /\ NextPair
                  /\ UNCHANGED exc
    /\ UNCHANGED <<search_page, car_page_urls, car_pages, k, car_data_list,
                   car_page, car_data, extra_car_data, query, url>>

\* Line 247 with no record: nothing is written.
SkipWrite ==
    /\ pc = "extract"
    /\ k > Len(car_pages)
    /\ Len(car_data_list) = 0
    /\ NextPair
    /\ UNCHANGED <<search_page, car_page_urls, car_pages, k, car_data_list, exc,
                   written, out_file, car_page, car_data, extra_car_data, query, url>>

Next == Search \/ FetchPage \/ FetchDone \/ ExtractPage \/ WriteTable \/ SkipWrite

Spec == Init /\ [][Next]_vars

(***************************************************************************)
(* The extractors applied to one listing page, each on its own.            *)
(***************************************************************************)
Idle ==
    /\ pair = 1
    /\ car_pages = << >>
    /\ k = 1
    /\ car_data_list = << >>
    /\ exc = NoExc
    /\ written = [i \in 1..NumPairs |-> 0]
    /\ out_file = NoFile

InitExtract ==
    /\ Idle
    /\ pc = "extractors"
    /\ search_page = NoSearchPage
    /\ car_page_urls = << >>
    /\ car_page \in ExtractorPages
    /\ car_data = NotCalled
    /\ extra_car_data = NotCalled
    /\ query = MainQuery(1)
    /\ url = << >>

\* Line 239: car_data = extract_car_data(car_page)
ApplyExtractCarData ==
    /\ pc = "extractors"
    /\ car_data = NotCalled
    /\ car_data' = extract_car_data(car_page)
    /\ UNCHANGED <<pc, pair, search_page, car_page_urls, car_pages, k, car_data_list,
                   exc, written, out_file, car_page, extra_car_data, query, url>>

\* Line 240: extra_car_data = extract_extra_car_data(car_page)
ApplyExtractExtraCarData ==
    /\ pc = "extractors"
    /\ extra_car_data = NotCalled
    /\ extra_car_data' = extract_extra_car_data(car_page)
    /\ UNCHANGED <<pc, pair, search_page, car_page_urls, car_pages, k, car_data_list,
                   exc, written, out_file, car_page, car_data, query, url>>

NextExtract == ApplyExtractCarData \/ ApplyExtractExtraCarData

SpecExtract == InitExtract /\ [][NextExtract]_vars

(***************************************************************************)
(* get_car_page_urls applied to one search page.                           *)
(***************************************************************************)
InitDiscover ==
    /\ Idle
    /\ pc = "discover"
    /\ search_page \in SearchPages
    /\ car_page_urls = << >>
    /\ car_page = NoPage
    /\ car_data = NotCalled
    /\ extra_car_data = NotCalled
    /\ query = MainQuery(1)
    /\ url = << >>

\* Line 234: car_page_urls = get_car_page_urls(search_page)
Discover ==
    /\ pc = "discover"
    /\ pc' = "discovered"
    /\ car_page_urls' \in Listings(get_car_page_urls(search_page))
    /\ UNCHANGED <<pair, search_page, car_pages, k, car_data_list, exc, written,
                   out_file, car_page, car_data, extra_car_data, query, url>>

NextDiscover == Discover

SpecDiscover == InitDiscover /\ [][NextDiscover]_vars

(***************************************************************************)
(* The URL construction of search_autotrader applied to one query.         *)
(***************************************************************************)
Alphabet == {" ", "=", "r", "c", "p"}
PostalCodes == UNION {[1..n -> Alphabet] : n \in 0..MaxLen}
Makes == {cars[1].make, <<"m","d","l","=">>}
Models == {cars[1].model, <<"M","o","d","e","l"," ","3">>}
Radii == {1, 100}
PageSizes == {15, 25, 50, 100}

Queries == [make : Makes, model : Models, postal_code : PostalCodes,
            radius_km : Radii, display_results : PageSizes]

InitQuery ==
    /\ Idle
    /\ pc = "query"
    /\ search_page = NoSearchPage
    /\ car_page_urls = << >>
    /\ car_page = NoPage
    /\ car_data = NotCalled
    /\ extra_car_data = NotCalled
    /\ query \in Queries
    /\ url = << >>

\* Lines 40-46: url = ...
BuildUrl ==
    /\ pc = "query"
    /\ pc' = "built"
    /\ url' = SearchUrl(query)
    /\ UNCHANGED <<pair, search_page, car_page_urls, car_pages, k, car_data_list,
                   exc, written, out_file, car_page, car_data, extra_car_data, query>>

NextQuery == BuildUrl

SpecQuery == InitQuery /\ [][NextQuery]_vars

(***************************************************************************)
(* Properties.                                                             *)
(***************************************************************************)
Range(seq) == {seq[i] : i \in 1..Len(seq)}

\* C1 (as stated; the code violates it): under Spec, a per-listing failure
\* (a fetch error in get_car_pages, or a listing page without its second
\* structured-data block) never ends the run, and when the extraction loop of
\* a pair is over the record list holds one record per listing that has its
\* second structured-data block.
C1_PerListingFailureIsSkipped ==
    /\ pc = "aborted" =>
         /\ exc.stage # "get_car_pages"
         /\ ~(exc.stage = "extract_car_data" /\ exc.type = "IndexError")
    /\ (pc = "extract" /\ k > Len(car_pages)) =>
         Len(car_data_list) =
            Cardinality({i \in 1..Len(car_pages) : Len(car_pages[i].ld) >= 2})

\* C2 (as stated; the code violates it): under SpecExtract, extract_car_data
\* on a page with fewer than two structured-data blocks fails with
\* MissingStructuredDataError and not with an out-of-range access.
C2_MissingStructuredDataError ==
    (car_data # NotCalled /\ Len(car_page.ld) < 2) =>
        /\ car_data.exc = "MissingStructuredDataError"
        /\ car_data.exc # "IndexError"

\* C3 (as stated; the code violates it): under SpecExtract,
\* extract_extra_car_data on a page none of whose scripts contains ngVdpModel
\* returns None and raises nothing.
C3_NoMarkerGivesNone ==
    (extra_car_data # NotCalled /\ SelectSeq(car_page.js, HasMarker) = << >>) =>
        /\ extra_car_data.exc = "none"
        /\ extra_car_data.none

\* C4 (as stated; the code violates it): under SpecExtract, whenever the second
\* structured-data block parses as a JSON object, extract_car_data returns a
\* record, with every present field copied and every missing one null.
C4_FieldLookupsNeverFail ==
    (/\ car_data # NotCalled
     /\ Len(car_page.ld) >= 2
     /\ car_page.ld[2].json = "object") =>
        LET obj == car_page.ld[2].value IN
        /\ car_data.exc = "none"
        /\ DOMAIN car_data.val = PrimaryFields
        /\ car_data.val["make"] = Get(Get(obj, "brand", EmptyObj), "name", Null)
        /\ car_data.val["model"] = Get(obj, "model", Null)
        /\ car_data.val["price"] = Get(Get(obj, "offers", EmptyObj), "price", Null)
        /\ car_data.val["url"] = Get(obj, "url", Null)
        /\ car_data.val["name"] = Get(obj, "name", Null)

\* C5 (as stated; the code violates it): under SpecExtract, when a script
\* containing ngVdpModel exists, extract_extra_car_data raises nothing: it
\* returns None when the pattern does not match or the captured text is not
\* JSON, and otherwise a record whose missing fields are null (trim copied from
\* hero.trim).
C5_SecondaryNeverFails ==
    (extra_car_data # NotCalled /\ SelectSeq(car_page.js, HasMarker) # << >>) =>
        LET js_data == SelectSeq(car_page.js, HasMarker)[1] IN
        /\ extra_car_data.exc = "none"
        /\ ~js_data.assigned => extra_car_data.none
        /\ (js_data.assigned /\ js_data.payload.json = "malformed") => extra_car_data.none
        /\ (js_data.assigned /\ js_data.payload.json = "object") =>
              /\ ~extra_car_data.none
              /\ DOMAIN extra_car_data.val = ExtraFields
              /\ extra_car_data.val["trim"] =
                    Get(Get(js_data.payload.value, "hero", EmptyObj), "trim", Null)
              /\ extra_car_data.val["description"] =
                    Get(Get(js_data.payload.value, "description", EmptyObj), "description", Null)

\* C6 (as stated; the code violates it): under SpecDiscover, get_car_page_urls
\* returns, without duplicates, exactly the URLs base + href of the anchors
\* that have a target class and an href; an anchor without href gives nothing.
C6_DiscoveredUrls ==
    pc = "discovered" =>
        LET tags == SelectSeq(search_page.anchors, Matches)
            hrefs == {tags[i]["href"] : i \in {j \in 1..Len(tags) : "href" \in DOMAIN tags[j]}}
        IN /\ Range(car_page_urls) = {UrlBase \o h : h \in hrefs}
           /\ Len(car_page_urls) = Cardinality(hrefs)
           /\ UrlBase \o "None" \notin Range(car_page_urls)

\* The record r is base with extra applied on top; extra may be None.
IsMerge(r, base, extra) ==
    IF extra.none THEN r = base.val
    ELSE /\ DOMAIN r = DOMAIN base.val \cup DOMAIN extra.val
         /\ \A key \in DOMAIN extra.val : r[key] = extra.val[key]
         /\ \A key \in DOMAIN base.val \ DOMAIN extra.val : r[key] = base.val[key]

\* C7: under Spec, every record of the output collection contains all primary
\* fields, and during the extraction loop the record appended for a page is
\* the record of extract_car_data with the record of extract_extra_car_data
\* applied on top (key set the union, the supplementary value on a common key,
\* the base value elsewhere; the base unchanged when there is no
\* supplementary record).
C7_RecordIsBaseUpdatedWithExtra ==
    /\ \A i \in 1..Len(car_data_list) : PrimaryFields \subseteq DOMAIN car_data_list[i]
    /\ pc = "extract" =>
         /\ Len(car_data_list) = k - 1
         /\ \A i \in 1..Len(car_data_list) :
               IsMerge(car_data_list[i], extract_car_data(car_pages[i]),
                       extract_extra_car_data(car_pages[i]))

\* C7 witness: the loop has appended one record with supplementary fields and
\* one without.
C7_Witness ==
    /\ pc = "extract"
    /\ Len(car_data_list) = 2
    /\ \E i, j \in 1..2 :
          /\ DOMAIN car_data_list[i] = PrimaryFields \cup ExtraFields
          /\ car_data_list[i]["trim"] = "XLE"
          /\ car_data_list[i]["make"] = "Toyota"
          /\ DOMAIN car_data_list[j] = PrimaryFields

\* C8 (as stated; the code violates it): under Spec, at most one table is
\* written per pair, the table of the pair just finished was written exactly
\* when its record list was not empty, and the run never stops before it has
\* finished every pair, unless the search page itself cannot be fetched or the
\* output file cannot be opened.
C8_OneTablePerPairAndRunFinishes ==
    /\ \A i \in 1..NumPairs : written[i] <= 1
    /\ (pc \in {"search", "done"} /\ pair > 1) =>
          (written[pair - 1] = 1 <=> Len(car_data_list) > 0)
    /\ pc = "aborted" => exc.stage \in {"search_autotrader", "open"}

\* Occurrences of the token tok in the string s.
Count(tok, s) ==
    Cardinality({i \in 1..(Len(s) - Len(tok) + 1) : SubSeq(s, i, i + Len(tok) - 1) = tok})

Tokens == {<<"l","o","c","=">>, <<"m","a","k","e","=">>, <<"m","d","l","=">>,
           <<"p","r","x","=">>, <<"r","c","p","=">>}

\* C9 (as stated; the code violates it): under SpecQuery, every built URL
\* contains each of loc=, make=, mdl=, prx=, rcp= exactly once and no space.
C9_OneOfEachParameter ==
    pc = "built" =>
        /\ \A tok \in Tokens : Count(tok, url) = 1
        /\ " " \notin Range(url)

\* No argument of the query contains one of the parameter tokens.
TokenFree(q) ==
    \A tok \in Tokens :
        Count(tok, q.make) = 0 /\ Count(tok, q.model) = 0 /\ Count(tok, q.postal_code) = 0

\* C9 (amended): under SpecQuery, every built URL contains no space, and when
\* none of make, model and postal code contains one of the tokens loc=, make=,
\* mdl=, prx=, rcp=, the URL contains each of them exactly once.
C9_OneOfEachParameterWhenTokenFree ==
    pc = "built" =>
        /\ " " \notin Range(url)
        /\ TokenFree(query) => \A tok \in Tokens : Count(tok, url) = 1

\* C9 witness: a URL was built from a query with spaces in the postal code and
\* the model, and no token in any argument.
C9_Witness ==
    /\ pc = "built"
    /\ TokenFree(query)
    /\ " " \in Range(query.postal_code)
    /\ " " \in Range(query.model)
    /\ Len(query.postal_code) >= 3
    /\ Count(<<"%","2","0">>, url) >= 2

\* C10 (as stated; the code violates it): under Spec, no record of a
\* non-empty record list makes the write step fail once the file is open, and
\* the table it writes has the keys of the first record as header and one row
\* per record, a key the record lacks being written as an empty field.
C10_WriteNeverFails ==
    /\ ~(pc = "aborted" /\ exc.stage = "write")
    /\ \A i \in 1..NumPairs :
          (/\ written[i] = 1
           /\ \/ pair = i + 1 /\ pc \in {"search", "done"}
              \/ pair = i /\ pc = "aborted" /\ exc.stage = "write") =>
             /\ out_file.exc = "none"
             /\ out_file.header = DOMAIN car_data_list[1]
             /\ Len(out_file.rows) = Len(car_data_list)
             /\ \A n \in 1..Len(out_file.rows) :
                   out_file.rows[n] = [f \in out_file.header |-> Get(car_data_list[n], f, "")]

====
